---- MODULE Spec2Model ----
(***************************************************************************)
(* State-machine model of the Simple_NFT ink! contract                     *)
(* (contracts/baseNFT/lib.rs): the four storage maps, the constructor and  *)
(* the three mutating messages approve, transfer and transfer_from,        *)
(* together with the private helpers they call.                            *)
(*                                                                         *)
(* A storage map is a TLA+ function whose DOMAIN is the set of keys that   *)
(* are present.  Option<T> is a sequence of length 0 (None) or 1 (Some).   *)
(* A u32 is the pair <<hi, lo>> of its 16-bit halves, so that the full     *)
(* 32-bit width is kept.  A helper that returns Result<(), Error> is an    *)
(* operator that yields the SET of its possible outcomes [s, r]: the       *)
(* storage after the helper and "Ok", an Error name or "Panic".  The set   *)
(* has two elements where the outcome depends on the build (u32 overflow   *)
(* traps with overflow checks and wraps without).                          *)
(***************************************************************************)
EXTENDS Integers, Sequences, FiniteSets, TLC

\* ------------------------------------------------------------- constants
TOKENID_INIT == 188
MATEDATA_INIT == 20
\* `for i in 0..10` of inherent_init
INIT_COUNT == 10
\* a token id that is never minted (the tests use id 2)
UNMINTED_ID == 2
\* AccountId::from([0x0; 32])
ZeroAccount == "zero"
Users == {"alice", "bob", "eve"}
AccountIds == Users \cup {ZeroAccount}
\* the account that deploys the contract (the tests deploy as alice)
Deployers == {"alice"}
\* the token ids the messages are called with: two minted ids and one that
\* is never minted
CallIds == {TOKENID_INIT, TOKENID_INIT + 1, UNMINTED_ID}

\* ------------------------------------------------------------- bounds
\* messages are called only while every counter is less than MaxDrift away
\* from the number of tokens its account owns
MaxDrift == 1

\* ------------------------------------------------------------- u32
HALF == 65536
U32(n) == <<n \div HALF, n % HALF>>
U32Zero == <<0, 0>>
U32Max == <<HALF - 1, HALF - 1>>
\* v - 1 and v + 1 modulo 2^32
U32WrappingDec(v) ==
    IF v[2] > 0 THEN <<v[1], v[2] - 1>>
    ELSE IF v[1] > 0 THEN <<v[1] - 1, HALF - 1>>
    ELSE U32Max
U32WrappingInc(v) ==
    IF v[2] < HALF - 1 THEN <<v[1], v[2] + 1>>
    ELSE IF v[1] < HALF - 1 THEN <<v[1] + 1, 0>>
    ELSE U32Zero

\* ------------------------------------------------------------- maps, options
None == <<>>
Some(x) == <<x>>
MapGet(m, k) == IF k \in DOMAIN m THEN Some(m[k]) ELSE None
MapInsert(m, k, v) == [x \in DOMAIN m \cup {k} |-> IF x = k THEN v ELSE m[x]]
MapRemove(m, k) == [x \in DOMAIN m \ {k} |-> m[x]]
EmptyMap == [x \in {} |-> 0]

\* a call of a function that returns a plain value either returns it or
\* panics (Option::expect on None)
Returns(v) == <<v>>
Panics == <<>>

\* an outcome of a helper returning Result<(), Error>: the storage it leaves
\* and "Ok", the Error or "Panic"
Outcome(s, r) == [s |-> s, r |-> r]
\* an outcome of a message: also the events emitted
Reply(s, r, ev) == [s |-> s, r |-> r, ev |-> ev]

Errors == {"NotOwner", "NotApproved", "TokenExists", "TokenNotFound",
           "CannotInsert", "CannotRemove", "CannotFetchValue", "NotAllowed"}

\* ------------------------------------------------------------- state
VARIABLES
    token_owner,            \* TokenId -> AccountId
    owned_tokens_count,     \* AccountId -> u32
    matedatas,              \* TokenId -> u32
    approvals_token,        \* <<AccountId, TokenId>> -> AccountId
    last                    \* the last call: the message, what it returned
                            \* and the events it emitted

vars == <<token_owner, owned_tokens_count, matedatas, approvals_token, last>>

\* the contract's storage as one value
Storage == [token_owner |-> token_owner,
            owned_tokens_count |-> owned_tokens_count,
            matedatas |-> matedatas,
            approvals_token |-> approvals_token]

\* ------------------------------------------------------------- queries
owner_of(s, id) == MapGet(s.token_owner, id)

balance_of_or_zero(s, of) ==
    IF of \in DOMAIN s.owned_tokens_count THEN s.owned_tokens_count[of] ELSE U32Zero

balance_of(s, owner) == balance_of_or_zero(s, owner)

\* mutant: existence read from the metadata map, which keeps every minted id
exists_ByMetadata(s, id) == id \in DOMAIN s.matedatas

exists(s, id) == MapGet(s.token_owner, id) # None /\ id \in DOMAIN s.token_owner

\* mutant: the owner counts as approved for its own token
approved_for_token_OwnerToo(s, id, user) ==
    IF user = ZeroAccount THEN Returns(FALSE)
    ELSE LET owner == owner_of(s, id)
         IN IF owner = None THEN Panics
            ELSE LET key == <<owner[1], id>>
                 IN Returns(\/ owner = Some(user)
                            \/ user = (IF key \in DOMAIN s.approvals_token
                                       THEN s.approvals_token[key] ELSE ZeroAccount))

approved_for_token(s, id, user) ==
    IF user = ZeroAccount THEN Returns(FALSE)
    ELSE LET owner == owner_of(s, id)
         IN IF owner = None THEN Panics
            ELSE LET key == <<owner[1], id>>
                 IN Returns(user = (IF key \in DOMAIN s.approvals_token
                                    THEN s.approvals_token[key] ELSE ZeroAccount))

get_approved(s, id) ==
    LET owner == owner_of(s, id)
    IN IF owner = None THEN Panics
       ELSE Returns(MapGet(s.approvals_token, <<owner[1], id>>))

is_approved(s, id, user) == approved_for_token(s, id, user)

\* ------------------------------------------------------------- counters
decrease_counter_of(hmap, of) ==
    IF of \notin DOMAIN hmap THEN {Outcome(hmap, "CannotFetchValue")}
    ELSE IF hmap[of] = U32Zero
         THEN {Outcome(hmap, "Panic"),
               Outcome([hmap EXCEPT ![of] = U32WrappingDec(@)], "Ok")}
         ELSE {Outcome([hmap EXCEPT ![of] = U32WrappingDec(@)], "Ok")}

increase_counter_of(hmap, of) ==
    IF of \notin DOMAIN hmap THEN {Outcome(MapInsert(hmap, of, U32(1)), "Ok")}
    ELSE IF hmap[of] = U32Max
         THEN {Outcome(hmap, "Panic"),
               Outcome([hmap EXCEPT ![of] = U32WrappingInc(@)], "Ok")}
         ELSE {Outcome([hmap EXCEPT ![of] = U32WrappingInc(@)], "Ok")}

\* ------------------------------------------------------------- helpers
remove_token_from(s, from, id) ==
    IF id \notin DOMAIN s.token_owner THEN {Outcome(s, "TokenNotFound")}
    ELSE { IF c.r = "Ok"
           THEN Outcome([s EXCEPT !.owned_tokens_count = c.s,
                                  !.token_owner = MapRemove(@, id)], "Ok")
           ELSE Outcome(s, c.r)
           : c \in decrease_counter_of(s.owned_tokens_count, from) }

add_token_to(s, to, id) ==
    IF id \in DOMAIN s.token_owner THEN {Outcome(s, "TokenExists")}
    ELSE IF to = ZeroAccount THEN {Outcome(s, "NotAllowed")}
    ELSE { IF c.r = "Ok"
           THEN Outcome([s EXCEPT !.owned_tokens_count = c.s,
                                  !.token_owner = MapInsert(@, id, to)], "Ok")
           ELSE Outcome(s, c.r)
           : c \in increase_counter_of(s.owned_tokens_count, to) }

\* mutant: the approval is left in place
clear_approval_Skip(s, id) ==
    IF owner_of(s, id) = None THEN {Outcome(s, "Panic")} ELSE {Outcome(s, "Ok")}

clear_approval(s, id) ==
    LET owner == owner_of(s, id)
    IN IF owner = None THEN {Outcome(s, "Panic")}
       ELSE LET key == <<owner[1], id>>
            IN IF key \notin DOMAIN s.approvals_token THEN {Outcome(s, "Ok")}
               ELSE {Outcome([s EXCEPT !.approvals_token = MapRemove(@, key)], "Ok")}

TransferEvent(from, to, id) ==
    [event |-> "Transfer", from |-> Some(from), to |-> Some(to), id |-> id]
ApprovalEvent(from, to, id) ==
    [event |-> "Approval", from |-> from, to |-> to, id |-> id]

\* mutant: the token moves and the approval of its previous owner stays
move_token_KeepApproval(s, from, to, id) ==
    LET removed == remove_token_from(s, from, id)
        added == UNION { IF o.r = "Ok" THEN add_token_to(o.s, to, id) ELSE {o}
                         : o \in removed }
    IN { Reply(o.s, o.r, IF o.r = "Ok" THEN <<TransferEvent(from, to, id)>> ELSE <<>>)
         : o \in added }

\* the part of transfer_token_from after its checks: clear the approval,
\* remove the token from `from`, add it to `to`, emit the event
move_token(s, from, to, id) ==
    LET cleared == clear_approval(s, id)
        \* `?`: a step runs after the Ok outcomes of the one before it, and
        \* any other outcome is returned as it is
        removed == UNION { IF o.r = "Ok" THEN remove_token_from(o.s, from, id) ELSE {o}
                           : o \in cleared }
        added == UNION { IF o.r = "Ok" THEN add_token_to(o.s, to, id) ELSE {o}
                         : o \in removed }
    IN { Reply(o.s, o.r, IF o.r = "Ok" THEN <<TransferEvent(from, to, id)>> ELSE <<>>)
         : o \in added }

\* mutant: the direct path also lets the approved delegate through
transfer_token_from_DelegateMayTransfer(s, caller, from, to, id, need_approval) ==
    IF ~exists(s, id) THEN {Reply(s, "TokenNotFound", <<>>)}
    ELSE IF /\ ~need_approval
            /\ owner_of(s, id) # Some(caller)
            /\ approved_for_token(s, id, caller) # Returns(TRUE)
    THEN {Reply(s, "NotAllowed", <<>>)}
    ELSE IF need_approval /\ approved_for_token(s, id, caller) = Panics
    THEN {Reply(s, "Panic", <<>>)}
    ELSE IF need_approval /\ approved_for_token(s, id, caller) = Returns(FALSE)
    THEN {Reply(s, "NotApproved", <<>>)}
    ELSE move_token(s, from, to, id)

transfer_token_from(s, caller, from, to, id, need_approval) ==
    IF ~exists(s, id) THEN {Reply(s, "TokenNotFound", <<>>)}
    ELSE IF ~need_approval /\ owner_of(s, id) # Some(caller)
    THEN {Reply(s, "NotAllowed", <<>>)}
    ELSE IF need_approval /\ approved_for_token(s, id, caller) = Panics
    THEN {Reply(s, "Panic", <<>>)}
    ELSE IF need_approval /\ approved_for_token(s, id, caller) = Returns(FALSE)
    THEN {Reply(s, "NotApproved", <<>>)}
    ELSE move_token(s, from, to, id)

\* mutant: the caller is not compared with the owner
approve_for_AnyCaller(s, caller, to, id) ==
    LET owner == owner_of(s, id)
    IN IF owner = None THEN {Reply(s, "Panic", <<>>)}
       ELSE IF to = ZeroAccount THEN {Reply(s, "NotAllowed", <<>>)}
       ELSE {Reply([s EXCEPT !.approvals_token = MapInsert(@, <<owner[1], id>>, to)],
                   "Ok", <<ApprovalEvent(caller, to, id)>>)}

\* mutant: a grant does not replace the delegate already in place
approve_for_KeepFirst(s, caller, to, id) ==
    LET owner == owner_of(s, id)
    IN IF owner # Some(caller) THEN {Reply(s, "NotAllowed", <<>>)}
       ELSE IF to = ZeroAccount THEN {Reply(s, "NotAllowed", <<>>)}
       ELSE {Reply(IF <<owner[1], id>> \in DOMAIN s.approvals_token THEN s
                   ELSE [s EXCEPT !.approvals_token = MapInsert(@, <<owner[1], id>>, to)],
                   "Ok", <<ApprovalEvent(caller, to, id)>>)}

approve_for(s, caller, to, id) ==
    LET owner == owner_of(s, id)
    IN IF owner # Some(caller) THEN {Reply(s, "NotAllowed", <<>>)}
       ELSE IF to = ZeroAccount THEN {Reply(s, "NotAllowed", <<>>)}
       ELSE {Reply([s EXCEPT !.approvals_token = MapInsert(@, <<owner[1], id>>, to)],
                   "Ok", <<ApprovalEvent(caller, to, id)>>)}

\* ------------------------------------------------------------- constructor
RECURSIVE inherent_init_FiveTokens(_, _, _)
\* mutant: the loop mints the five tokens its comment speaks of
inherent_init_FiveTokens(s, caller, i) ==
    IF i >= 5 THEN s
    ELSE LET added == CHOOSE o \in add_token_to(s, caller, TOKENID_INIT + i) : TRUE
             s1 == [added.s EXCEPT !.matedatas =
                        MapInsert(@, TOKENID_INIT + i, U32(MATEDATA_INIT + i))]
         IN inherent_init_FiveTokens(s1, caller, i + 1)

RECURSIVE inherent_init(_, _, _)
\* iterations i..INIT_COUNT-1 of the loop; add_token_to's result is dropped
\* (it has one outcome here: no counter is near u32::MAX during construction)
inherent_init(s, caller, i) ==
    IF i >= INIT_COUNT THEN s
    ELSE LET added == CHOOSE o \in add_token_to(s, caller, TOKENID_INIT + i) : TRUE
             s1 == [added.s EXCEPT !.matedatas =
                        MapInsert(@, TOKENID_INIT + i, U32(MATEDATA_INIT + i))]
         IN inherent_init(s1, caller, i + 1)

new(caller) ==
    inherent_init([token_owner |-> EmptyMap, owned_tokens_count |-> EmptyMap,
                   matedatas |-> EmptyMap, approvals_token |-> EmptyMap], caller, 0)

Init ==
    \E caller \in Deployers :
        LET s == new(caller)
        IN /\ token_owner = s.token_owner
           /\ owned_tokens_count = s.owned_tokens_count
           /\ matedatas = s.matedatas
           /\ approvals_token = s.approvals_token
           /\ last = [op |-> "new", result |-> "Ok", emitted |-> <<>>]

\* ------------------------------------------------------------- messages
\* what a message call replies: a call that panics traps, which leaves the
\* storage as it was before the call and emits nothing.  A call that returns
\* Err returns normally: what the helpers changed before the failing step
\* stays changed, nothing in the contract undoes it
Dispatch(s, replies) ==
    { IF o.r = "Panic" THEN Reply(s, "Panic", <<>>) ELSE o : o \in replies }

approve_call(s, caller, to, id) ==
    Dispatch(s, approve_for(s, caller, to, id))

transfer_call(s, caller, destination, id) ==
    Dispatch(s, transfer_token_from(s, caller, caller, destination, id, FALSE))

transfer_from_call(s, caller, from, to, id) ==
    Dispatch(s, transfer_token_from(s, caller, from, to, id, TRUE))

\* the storage and the call record after a message replied o
Commit(op, o) ==
    /\ token_owner' = o.s.token_owner
    /\ owned_tokens_count' = o.s.owned_tokens_count
    /\ matedatas' = o.s.matedatas
    /\ approvals_token' = o.s.approvals_token
    /\ last' = [op |-> op, result |-> o.r, emitted |-> o.ev]

approve(caller, to, id) ==
    \E o \in approve_call(Storage, caller, to, id) : Commit("approve", o)

transfer(caller, destination, id) ==
    \E o \in transfer_call(Storage, caller, destination, id) : Commit("transfer", o)

transfer_from(caller, from, to, id) ==
    \E o \in transfer_from_call(Storage, caller, from, to, id) :
        Commit("transfer_from", o)

\* number of tokens an account owns
TokensOf(s, o) == Cardinality({t \in DOMAIN s.token_owner : s.token_owner[t] = o})

\* counter minus owned tokens, as a signed number
Drift(s, o) ==
    LET v == balance_of_or_zero(s, o)
    IN IF v[1] = 0 THEN v[2] - TokensOf(s, o)
       ELSE IF v[1] = HALF - 1 THEN v[2] - HALF - TokensOf(s, o)
       ELSE HALF
Abs(n) == IF n < 0 THEN 0 - n ELSE n
CountersBounded == \A o \in AccountIds : Abs(Drift(Storage, o)) < MaxDrift

\* any account calls a message with any arguments
CallApprove ==
    /\ CountersBounded
    /\ \E caller \in AccountIds, to \in AccountIds, id \in CallIds :
           approve(caller, to, id)

CallTransfer ==
    /\ CountersBounded
    /\ \E caller \in AccountIds, destination \in AccountIds, id \in CallIds :
           transfer(caller, destination, id)

CallTransferFrom ==
    /\ CountersBounded
    /\ \E caller \in AccountIds, from \in AccountIds, to \in AccountIds,
          id \in CallIds :
           transfer_from(caller, from, to, id)

Next == CallApprove \/ CallTransfer \/ CallTransferFrom

Spec == Init /\ [][Next]_vars

\* ------------------------------------------------------------- properties
TransferOps == {"transfer", "transfer_from"}

LedgerUnchanged ==
    /\ token_owner' = token_owner
    /\ owned_tokens_count' = owned_tokens_count
    /\ approvals_token' = approvals_token

\* the only reply of a call that fails with error e and does nothing else
Refused(e) == {Reply(Storage, e, <<>>)}

\* C1: in every reachable state, for every account o, balance_of(o) is the
\* number of token ids whose owner is o (no counter entry counts as 0).
C1_BalanceIsOwnedTokens ==
    \A o \in AccountIds : balance_of(Storage, o) = U32(TokensOf(Storage, o))

\* C2: whenever transfer or transfer_from returns an Err, the token->owner
\* map, the owner->count map and the approvals map are what they were before
\* the call.
C2_FailedTransferChangesNothing ==
    [][(last'.op \in TransferOps /\ last'.result \in Errors) => LedgerUnchanged]_vars

\* C3: the set of existing token ids is in every reachable state the set
\* that existed right after construction.
C3_TokenSetIsFixed ==
    \E c \in Deployers : DOMAIN token_owner = DOMAIN new(c).token_owner

\* caller is the current owner of the existing token id
IsOwner(caller, id) ==
    id \in DOMAIN token_owner /\ token_owner[id] = caller
\* caller is the approved delegate for (owner of id, id)
IsDelegate(caller, id) ==
    /\ id \in DOMAIN token_owner
    /\ <<token_owner[id], id>> \in DOMAIN approvals_token
    /\ approvals_token[<<token_owner[id], id>>] = caller

\* C4: no token maps to the null account and no approval has the null
\* account as delegate; an otherwise authorized transfer or transfer_from to
\* the null account returns Err(NotAllowed), and approve with the null
\* account as delegate returns Err(NotAllowed).
C4_NullAccountRejected ==
    /\ \A t \in DOMAIN token_owner : token_owner[t] # ZeroAccount
    /\ \A k \in DOMAIN approvals_token : approvals_token[k] # ZeroAccount
    /\ \A caller \in AccountIds, id \in CallIds :
        /\ \A o \in approve_call(Storage, caller, ZeroAccount, id) :
               o.r = "NotAllowed"
        /\ IsOwner(caller, id) =>
               \A o \in transfer_call(Storage, caller, ZeroAccount, id) :
                   o.r = "NotAllowed"
        /\ IsDelegate(caller, id) =>
               \A from \in AccountIds :
                   \A o \in transfer_from_call(Storage, caller, from, ZeroAccount, id) :
                       o.r = "NotAllowed"

C6_TransferByNonOwnerRefused ==
    \A caller \in AccountIds, id \in CallIds, destination \in AccountIds :
        (id \in DOMAIN token_owner /\ ~IsOwner(caller, id)) =>
            transfer_call(Storage, caller, destination, id) = Refused("NotAllowed")

\* a transfer was refused with NotAllowed, no token is gone, and a delegate
\* that is not the owner holds an approval
C6_Witness ==
    /\ last.op = "transfer" /\ last.result = "NotAllowed"
    /\ \A id \in CallIds \ {UNMINTED_ID} : id \in DOMAIN token_owner
    /\ \E id \in CallIds, u \in Users : IsDelegate(u, id) /\ ~IsOwner(u, id)

\* C7: for a token id that does not exist, transfer and transfer_from return
\* Err(TokenNotFound) for every caller and every other argument and change
\* no state.
C7_MissingTokenNotFound ==
    \A id \in CallIds : id \notin DOMAIN token_owner =>
        \A caller \in AccountIds, to \in AccountIds :
            /\ transfer_call(Storage, caller, to, id) = Refused("TokenNotFound")
            /\ \A from \in AccountIds :
                   transfer_from_call(Storage, caller, from, to, id)
                       = Refused("TokenNotFound")

\* a transfer_from came back with TokenNotFound in a state where a minted
\* token no longer exists
C7_Witness ==
    /\ last.op = "transfer_from" /\ last.result = "TokenNotFound"
    /\ \E id \in CallIds \ {UNMINTED_ID} : id \notin DOMAIN token_owner

\* C8: after a successful transfer or transfer_from of token t there is no
\* approval for t under its new owner: get_approved(t) is None,
\* is_approved(t, u) is false for every u, every transfer_from of t fails
\* with NotApproved and every transfer of t by an account other than the new
\* owner fails with NotAllowed; an approval appears only by an approve call
\* of the token's owner.
C8_TransferLeavesNoApproval ==
    /\ []((last.op \in TransferOps /\ last.result = "Ok") =>
            LET id == last.emitted[1].id
            IN /\ get_approved(Storage, id) = Returns(None)
               /\ \A u \in AccountIds : is_approved(Storage, id, u) = Returns(FALSE)
               /\ \A u \in AccountIds, to \in AccountIds :
                    /\ \A from \in AccountIds :
                           transfer_from_call(Storage, u, from, to, id)
                               = Refused("NotApproved")
                    /\ ~IsOwner(u, id) =>
                           transfer_call(Storage, u, to, id) = Refused("NotAllowed"))
    /\ [][\A k \in DOMAIN approvals_token' :
            (k \notin DOMAIN approvals_token \/ approvals_token'[k] # approvals_token[k]) =>
                /\ last'.op = "approve" /\ last'.result = "Ok"
                /\ last'.emitted[1].from = k[1] /\ last'.emitted[1].id = k[2]
                /\ IsOwner(k[1], k[2])]_vars

\* a delegated transfer has succeeded and moved the token to another account
C8_Witness ==
    /\ last.op = "transfer_from" /\ last.result = "Ok"
    /\ last.emitted[1].from # last.emitted[1].to
    /\ owner_of(Storage, last.emitted[1].id) = last.emitted[1].to

\* C9: approve(to, id) succeeds only when the caller is the owner of the
\* existing token id and `to` is not the null account; when the caller is
\* not the owner or the token does not exist it returns Err(NotAllowed),
\* records no approval, emits no event and changes no state.
C9_ApproveOnlyByOwner ==
    \A caller \in AccountIds, to \in AccountIds, id \in CallIds :
        /\ (\E o \in approve_call(Storage, caller, to, id) : o.r = "Ok") =>
               (IsOwner(caller, id) /\ to # ZeroAccount)
        /\ ~IsOwner(caller, id) =>
               approve_call(Storage, caller, to, id) = Refused("NotAllowed")

\* an approve was refused while a token is owned by an account other than
\* the deployer
C9_Witness ==
    /\ last.op = "approve" /\ last.result = "NotAllowed"
    /\ \E id \in CallIds, u \in Users \ Deployers : IsOwner(u, id)

\* C10: after a successful transfer_from(from, to, id), owner_of(id) is
\* Some(to), the balance of the account that owned id before the call is one
\* less and that of `to` one more (both unchanged when they are the same
\* account), every other balance is unchanged, and so is the owner of every
\* other token.
C10_TransferFromMovesOneToken ==
    [][(last'.op = "transfer_from" /\ last'.result = "Ok") =>
        LET ev == last'.emitted[1]
            id == ev.id
            to == ev.to[1]
            prev == token_owner[id]
        IN /\ owner_of(Storage', id) = Some(to)
           /\ \A o \in AccountIds :
                 balance_of(Storage', o) =
                    IF prev = to THEN balance_of(Storage, o)
                    ELSE IF o = prev THEN U32WrappingDec(balance_of(Storage, o))
                    ELSE IF o = to THEN U32WrappingInc(balance_of(Storage, o))
                    ELSE balance_of(Storage, o)
           /\ \A t \in DOMAIN token_owner \ {id} :
                 owner_of(Storage', t) = owner_of(Storage, t)
           /\ DOMAIN token_owner' = DOMAIN token_owner]_vars

\* after is before - 1 / before + 1 as numbers (no wrap-around)
OneLess(after, before) == before # U32Zero /\ after = U32WrappingDec(before)
OneMore(after, before) == before # U32Max /\ after = U32WrappingInc(before)

\* C11: after a successful transfer(destination, id) by the owner A,
\* owner_of(id) is Some(destination), balance_of(A) is one less and
\* balance_of(destination) one more than before (both unchanged when
\* destination is A), the owner of every other token and the balance of every
\* other account are unchanged, and so are the approvals of other tokens.
C11_TransferMovesOneToken ==
    \A caller \in AccountIds, destination \in AccountIds, id \in CallIds :
        \A o \in transfer_call(Storage, caller, destination, id) :
            o.r = "Ok" =>
                /\ IsOwner(caller, id)
                /\ owner_of(o.s, id) = Some(destination)
                /\ DOMAIN o.s.token_owner = DOMAIN token_owner
                /\ \A t \in DOMAIN token_owner \ {id} :
                       owner_of(o.s, t) = owner_of(Storage, t)
                /\ \A a \in AccountIds :
                       IF destination = caller
                       THEN balance_of(o.s, a) = balance_of(Storage, a)
                       ELSE IF a = caller
                       THEN OneLess(balance_of(o.s, a), balance_of(Storage, a))
                       ELSE IF a = destination
                       THEN OneMore(balance_of(o.s, a), balance_of(Storage, a))
                       ELSE balance_of(o.s, a) = balance_of(Storage, a)
                /\ \A k \in DOMAIN approvals_token \cup DOMAIN o.s.approvals_token :
                       k[2] # id =>
                           MapGet(o.s.approvals_token, k) = MapGet(approvals_token, k)

C13_NoMessagePanics ==
    \A caller \in AccountIds, a \in AccountIds, b \in AccountIds, id \in CallIds :
        /\ get_approved(Storage, id) # Panics
        /\ is_approved(Storage, id, a) # Panics
        /\ \A o \in approve_call(Storage, caller, a, id) : o.r # "Panic"
        /\ \A o \in transfer_call(Storage, caller, a, id) : o.r # "Panic"
        /\ \A o \in transfer_from_call(Storage, caller, a, b, id) : o.r # "Panic"

\* C14: no call of approve, transfer or transfer_from returns
\* Err(CannotFetchValue), Err(CannotRemove), Err(CannotInsert) or
\* Err(TokenExists).
C14_NoInternalError ==
    last.result \notin {"CannotFetchValue", "CannotRemove", "CannotInsert", "TokenExists"}

\* C15: in every reachable state the owner of an existing token can move it:
\* transfer(destination, id) called by the owner with a non-null destination
\* returns Ok(()).
C15_OwnerCanTransfer ==
    \A caller \in AccountIds, destination \in AccountIds \ {ZeroAccount},
       id \in CallIds :
        IsOwner(caller, id) =>
            \A o \in transfer_call(Storage, caller, destination, id) : o.r = "Ok"

\* C16: no transfer or transfer_from executes decrease_counter_of on an
\* account whose counter is 0: no call that passes the checks either panics
\* in the decrement or turns a counter of 0 into 2^32-1.
C16_NoCounterUnderflow ==
    LET \* the decrement of a call that has passed its checks stays above 0
        DecrementIsSafe(from, id) ==
            \A c \in clear_approval(Storage, id) :
                \A o \in remove_token_from(c.s, from, id) :
                    /\ o.r # "Panic"
                    /\ \A a \in DOMAIN owned_tokens_count :
                           owned_tokens_count[a] = U32Zero =>
                               o.s.owned_tokens_count[a] # U32Max
    IN \A caller \in AccountIds, id \in CallIds :
        /\ IsOwner(caller, id) => DecrementIsSafe(caller, id)
        /\ IsDelegate(caller, id) =>
               \A from \in AccountIds : DecrementIsSafe(from, id)

\* C17: every entry ((o, t) -> d) of the approvals map is live: token t
\* exists and o is its current owner, so no entry stays behind for a previous
\* owner or for a token that no longer exists.
C17_ApprovalsAreLive ==
    \A k \in DOMAIN approvals_token :
        /\ exists(Storage, k[2])
        /\ owner_of(Storage, k[2]) = Some(k[1])

\* a token has changed hands, and an approval granted by an owner other than
\* the deployer is in the map
C17_Witness ==
    /\ last.op \in TransferOps
    /\ \E k \in DOMAIN approvals_token :
           k[1] \notin Deployers /\ IsOwner(k[1], k[2])

\* C18: last grant wins. While B is the delegate of token t (the owner
\* called approve(B, t) and t has not been transferred since), an
\* approve(C, t) of the owner that returns Ok leaves get_approved(t) =
\* Some(C); if B # C then is_approved(t, B) is false and every transfer_from
\* of t by B returns NotApproved; C passes the approval check and no
\* transfer_from of t by C returns NotApproved.
C18_LastGrantWins ==
    \A owner \in Users, B \in Users, C \in AccountIds, t \in CallIds :
        (IsOwner(owner, t) /\ IsDelegate(B, t)) =>
            \A o \in approve_call(Storage, owner, C, t) :
                o.r = "Ok" =>
                    /\ get_approved(o.s, t) = Returns(Some(C))
                    /\ is_approved(o.s, t, C) = Returns(TRUE)
                    /\ \A from \in AccountIds, to \in AccountIds :
                           \A x \in transfer_from_call(o.s, C, from, to, t) :
                               x.r \notin {"NotApproved", "TokenNotFound"}
                    /\ B # C =>
                           /\ is_approved(o.s, t, B) = Returns(FALSE)
                           /\ \A from \in AccountIds, to \in AccountIds :
                                  transfer_from_call(o.s, B, from, to, t)
                                      = {Reply(o.s, "NotApproved", <<>>)}

\* the first grant has been made: the last call is an approve that returned
\* Ok and its delegate B is in place; a second grant to another account C is
\* accepted and C can then move the token with transfer_from
C18_Witness ==
    /\ last.op = "approve" /\ last.result = "Ok"
    /\ LET e == last.emitted[1]
       IN /\ IsOwner(e.from, e.id) /\ IsDelegate(e.to, e.id)
          /\ \E C \in Users \ {e.to} :
                 \E o \in approve_call(Storage, e.from, C, e.id) :
                     /\ o.r = "Ok"
                     /\ o.s.approvals_token[<<e.from, e.id>>] = C
                     /\ \E x \in transfer_from_call(o.s, C, e.from, C, e.id) :
                            x.r = "Ok"

\* C19: notifications match successes one to one. Every approve that returns
\* Ok emits exactly one Approval event and every transfer or transfer_from
\* that returns Ok emits exactly one Transfer event, a call that does not
\* return Ok emits nothing (so the numbers of events and of successes are
\* equal over any sequence of calls), and the `from` of a Transfer event is
\* the owner of the token immediately before the call and its `to` the owner
\* immediately after.
C19_EventsMatchSuccesses ==
    LET TransferNotified(id, o) ==
            IF o.r = "Ok"
            THEN /\ Len(o.ev) = 1
                 /\ o.ev[1].event = "Transfer"
                 /\ o.ev[1].id = id
                 /\ o.ev[1].from = owner_of(Storage, id)
                 /\ o.ev[1].to = owner_of(o.s, id)
            ELSE o.ev = <<>>
        ApprovalNotified(caller, to, id, o) ==
            IF o.r = "Ok"
            THEN o.ev = <<ApprovalEvent(caller, to, id)>>
            ELSE o.ev = <<>>
    IN \A caller \in AccountIds, to \in AccountIds, id \in CallIds :
        /\ \A o \in approve_call(Storage, caller, to, id) :
               ApprovalNotified(caller, to, id, o)
        /\ \A o \in transfer_call(Storage, caller, to, id) :
               TransferNotified(id, o)
        /\ \A from \in AccountIds :
               \A o \in transfer_from_call(Storage, caller, from, to, id) :
                   TransferNotified(id, o)

\* sum over the accounts in S of one 16-bit half (1 = high, 2 = low) of
\* balance_of
RECURSIVE BalanceHalfSum(_, _)
BalanceHalfSum(S, half) ==
    IF S = {} THEN 0
    ELSE LET o == CHOOSE x \in S : TRUE
         IN balance_of(Storage, o)[half] + BalanceHalfSum(S \ {o}, half)

\* C20: supply is conserved. In every reachable state the sum of
\* balance_of(o) over all accounts o equals the number of existing token
\* ids. (The sum is HALF * high halves + low halves and the number of tokens
\* is below HALF, so they are equal exactly when the high halves sum to 0
\* and the low halves to the number of tokens.)
C20_SupplyConserved ==
    /\ BalanceHalfSum(AccountIds, 1) = 0
    /\ BalanceHalfSum(AccountIds, 2) =
           Cardinality({id \in DOMAIN matedatas : exists(Storage, id)})

====
